---------------------------- MODULE Spec2Model ----------------------------
(***************************************************************************)
(* CCGuidance (flight/Modules/CCGuidance/ccguidance.c): the fixed-wing     *)
(* guidance callback ccguidanceTask, its static state, and the UAVObjects  *)
(* it reads and writes.                                                    *)
(*                                                                         *)
(* Angles are whole degrees.  GPS latitude and longitude are the raw       *)
(* integers of the GPSPosition object (1e-7 degree units).  Values of the  *)
(* trigonometric functions are fixed point, Scale units to 1.0; the        *)
(* doubles cos(pi/2) and sin(pi), which are tiny but not zero, are kept    *)
(* as one unit, because the code divides by them.                          *)
(***************************************************************************)
EXTENDS Integers, FiniteSets, Sequences, TLC

(***************************************************************************)
(* Bounds of the model.                                                    *)
(***************************************************************************)
\* xTaskGetTickCount() returns at most this tick.
MaxTick == 5
\* The same, for the longer flights of SpecHold.
MaxHoldTick == 8
\* The same, for the flights of SpecNav.
MaxNavTick == 6

(***************************************************************************)
(* Values of the CCGuidanceSettings fields that no operation changes.      *)
(***************************************************************************)
UpdatePeriod == 1
portTICK_RATE_MS == 1
RadiusBase == 100
GroundspeedMinimal == 5
ReturnTobaseAltitudeOffset == 50
PitchClimb == 15
PitchSink == -5
RollNeutral == 3
RollMax == 35

(***************************************************************************)
(* Input domains.                                                          *)
(***************************************************************************)
\* positionActual.Latitude * 1e-7 is in degrees.
GpsScale == 10000000
\* <<Latitude, Longitude, Altitude>> of the fixes: 0N 90E at 100 m, and 90N 0E
\* at 200 m.
PointA == <<0, 90 * GpsScale, 100>>
PointB == <<90 * GpsScale, 0, 200>>
FlightModes == {"Manual", "PositionHold", "ReturnToBase"}
ArmedValues == {"Disarmed", "Armed"}
AirframeTypes == {"FixedWing", "FixedWingElevon", "FixedWingVTail", "QuadX"}
ManualControlAlarmLevels == {"OK", "Critical"}

\* GPSPosition records; the geoid separation is 10 m everywhere.
Fixes(points, speeds, headings, statuses) ==
    { [ Latitude |-> p[1], Longitude |-> p[2], Altitude |-> p[3],
        GeoidSeparation |-> 10, Groundspeed |-> v, Heading |-> h, Status |-> q ] :
      p \in points, v \in speeds, h \in headings, q \in statuses }

\* The home location fields of CCGuidanceSettings: as shipped, and as a ground
\* station may set them.
HomeUnset ==
    [ HomeLocationSet |-> FALSE, HomeLocationLatitude |-> 0,
      HomeLocationLongitude |-> 0, HomeLocationAltitude |-> 0 ]
HomeAt(points) ==
    { [ HomeLocationSet |-> TRUE, HomeLocationLatitude |-> p[1],
        HomeLocationLongitude |-> p[2], HomeLocationAltitude |-> 150 ] :
      p \in points }

VARIABLES
    FlightStatus,           \* UAVObject FlightStatus: FlightMode, Armed
    SystemSettings,         \* UAVObject SystemSettings: AirframeType
    CCGuidanceSettings,     \* UAVObject CCGuidanceSettings: the fields that change
    GPSPosition,            \* UAVObject GPSPosition
    AttitudeActual,         \* UAVObject AttitudeActual: Yaw
    ManualControlCommand,   \* UAVObject ManualControlCommand: Throttle
    SystemAlarms,           \* alarms GUIDANCE and MANUALCONTROL
    StabilizationDesired,   \* UAVObject StabilizationDesired
    positionHoldLast, calculateCourseStep,
    lastUpdateTime, courseTrue, courseRelative, diffHeadingYaw,
    positionDesiredNorth, positionDesiredEast, positionDesiredDown,
    positionActualNorth, positionActualEast, DistanceToBase,
    StateSaveCurrentPositionToRTB,
    ccguidanceSettings,     \* the callback's copy of CCGuidanceSettings
    flightStatus            \* the callback's copy of FlightStatus, as the latest
                            \* call that passed the rate gate read and wrote it

objects == << FlightStatus, SystemSettings, CCGuidanceSettings, GPSPosition,
              AttitudeActual, ManualControlCommand, SystemAlarms,
              StabilizationDesired >>
statics == << positionHoldLast, calculateCourseStep, lastUpdateTime, courseTrue,
              courseRelative, diffHeadingYaw, positionDesiredNorth,
              positionDesiredEast, positionDesiredDown, positionActualNorth,
              positionActualEast, DistanceToBase, StateSaveCurrentPositionToRTB >>
locals == << ccguidanceSettings, flightStatus >>
vars == << objects, statics, locals >>


(***************************************************************************)
(* Navigation math: sphereDistance and sphereCourse.                       *)
(***************************************************************************)
\* Fixed point: Scale units are 1.0.
Scale == 1000
\* The result of acos outside [-1, 1], and of a division by zero.
NaN == -999999

isnan(x) == x = NaN

\* C division of integers truncates toward zero.
TruncDiv(a, b) ==
    LET q == (IF a < 0 THEN -a ELSE a) \div (IF b < 0 THEN -b ELSE b)
    IN  IF (a < 0) = (b < 0) THEN q ELSE -q

FMul(a, b) == TruncDiv(a * b, Scale)

\* a / b in doubles: 0/0 is NaN and x/0 is an infinity, of which acos is NaN.
FDiv(a, b) == IF b = 0 THEN NaN ELSE TruncDiv(a * Scale, b)

\* sin(DEG2RAD * d); sin(pi) is 1.2e-16 in doubles.
sin(d) ==
    CASE d \in {0} -> 0
      [] d \in {90, -270} -> Scale
      [] d \in {180, -360} -> 1
      [] d \in {-180, 360} -> -1
      [] d \in {-90, 270} -> -Scale

\* cos(DEG2RAD * d); cos(pi/2) is 6.1e-17 and cos(3pi/2) is -1.8e-16 in doubles.
cos(d) ==
    CASE d \in {0, 360, -360} -> Scale
      [] d \in {90, -90} -> 1
      [] d \in {180, -180} -> -Scale
      [] d \in {270, -270} -> -1

\* RAD2DEG * acos(x), rounded to float.
acos(x) ==
    CASE x = NaN -> NaN
      [] x # NaN /\ (x > Scale \/ x < -Scale) -> NaN
      [] x = Scale -> 0
      [] x \in {1, 0, -1} -> 90
      [] x = -Scale -> 180

sphereDistance(lat1, long1, lat2, long2) ==
    LET zeta == acos( FMul(sin(lat1), sin(lat2))
                      + FMul(FMul(cos(lat1), cos(lat2)), cos(long2 - long1)) )
    IN  IF isnan(zeta) THEN 0 ELSE zeta

sphereCourse(lat1, long1, lat2, long2, zeta) ==
    LET angle0 == acos( FDiv( sin(lat2) - FMul(sin(lat1), cos(zeta)),
                              FMul(cos(lat1), sin(zeta)) ) )
        angle == IF isnan(angle0) THEN 0 ELSE angle0
        diff0 == long2 - long1
        diff1 == IF diff0 > 180 THEN diff0 - 360 ELSE diff0
        diff == IF diff1 < -180 THEN diff1 + 360 ELSE diff1
    IN  IF diff >= 0 THEN angle ELSE -angle


(***************************************************************************)
(* ccguidanceTask, the callback connected to GPSPosition.                  *)
(***************************************************************************)
\* while (x < -180.) x += 360.;
RECURSIVE wrapUp(_)
wrapUp(x) == IF x < -180 THEN wrapUp(x + 360) ELSE x

\* while (x > 180.) x -= 360.;
RECURSIVE wrapDown(_)
wrapDown(x) == IF x > 180 THEN wrapDown(x - 360) ELSE x

\* manualcontrol.h: the flight modes the guidance modules serve.
PARSE_FLIGHT_MODE(mode) ==
    IF mode \in {"PositionHold", "ReturnToBase"} THEN "GUIDANCE" ELSE "MANUAL"

\* Variant of CCGuidanceStart that raises no alarm; C13 rejects it.
CCGuidanceStartSilent == "OK"

\* int32_t CCGuidanceStart(): the guidance alarm after module start.
CCGuidanceStart == "Error"

\* if (!lastUpdateTime) lastUpdateTime = xTaskGetTickCount();
LastUpdateTimeOnEntry(thisTime) ==
    IF lastUpdateTime = 0 THEN thisTime ELSE lastUpdateTime

\* Continue collecting data if not enough time.
RateGated(thisTime) ==
    (thisTime - LastUpdateTimeOnEntry(thisTime)) < (UpdatePeriod \div portTICK_RATE_MS)

\* Variant of FailsafeActive that forgets failesaveEnableRTB; C5 rejects it.
FailsafeActiveWithoutEnable(settings, alarms) ==
    alarms.MANUALCONTROL # "OK"

\* Activate failsave mode, activate return to base.
FailsafeActive(settings, alarms) ==
    alarms.MANUALCONTROL # "OK" /\ settings.failesaveEnableRTB = TRUE

FailsafeFlightStatus(settings, alarms) ==
    IF FailsafeActive(settings, alarms)
    THEN [FlightStatus EXCEPT !.FlightMode = "ReturnToBase"]
    ELSE FlightStatus

\* Variant of GuardPasses that forgets the airframe; C4 rejects it.
GuardPassesAnyAirframe(fs) ==
    PARSE_FLIGHT_MODE(fs.FlightMode) = "GUIDANCE"

\* The guard of the guidance branch.
GuardPasses(fs) ==
    /\ PARSE_FLIGHT_MODE(fs.FlightMode) = "GUIDANCE"
    /\ \/ SystemSettings.AirframeType = "FixedWing"
       \/ SystemSettings.AirframeType = "FixedWingElevon"
       \/ SystemSettings.AirframeType = "FixedWingVTail"

\* Variant of EnterPositionHold that captures in every cycle; C6 rejects it.
EnterPositionHoldAlways(fs, settings) ==
    \/ fs.FlightMode = "PositionHold"
    \/ fs.FlightMode = "ReturnToBase" /\ settings.HomeLocationSet = FALSE

\* The target selection at the head of the guidance branch.
EnterPositionHold(fs, settings) ==
    /\ positionHoldLast # 1
    /\ \/ fs.FlightMode = "PositionHold"
       \/ fs.FlightMode = "ReturnToBase" /\ settings.HomeLocationSet = FALSE

\* Variant of EnterReturnToBase that copies the home in every cycle; C7 rejects
\* it.
EnterReturnToBaseAlways(fs, settings) ==
    fs.FlightMode = "ReturnToBase" /\ settings.HomeLocationSet = TRUE

EnterReturnToBase(fs, settings) ==
    /\ positionHoldLast # 2
    /\ fs.FlightMode = "ReturnToBase" /\ settings.HomeLocationSet = TRUE

TargetSelector(fs, settings, positionActual) ==
    IF EnterPositionHold(fs, settings)
    THEN [ North |-> positionActual.Latitude \div GpsScale,
           East |-> positionActual.Longitude \div GpsScale,
           Down |-> positionActual.Altitude + positionActual.GeoidSeparation + 1,
           Last |-> 1 ]
    ELSE IF EnterReturnToBase(fs, settings)
    THEN [ North |-> settings.HomeLocationLatitude \div GpsScale,
           East |-> settings.HomeLocationLongitude \div GpsScale,
           Down |-> settings.HomeLocationAltitude + ReturnTobaseAltitudeOffset,
           Last |-> 2 ]
    ELSE [ North |-> positionDesiredNorth, East |-> positionDesiredEast,
           Down |-> positionDesiredDown, Last |-> positionHoldLast ]

\* Variant of SaveHomeLocation without the save flag; C8 rejects it.
SaveHomeLocationWhileDisarmed(fs) ==
    fs.Armed = "Disarmed"

\* Save current location to HomeLocation if flightStatus = DISARMED.
SaveHomeLocation(fs) ==
    fs.Armed = "Disarmed" /\ StateSaveCurrentPositionToRTB = 0

LatchHome(fs, settings, positionActual) ==
    IF SaveHomeLocation(fs)
    THEN [ settings EXCEPT !.HomeLocationLatitude = positionActual.Latitude,
                           !.HomeLocationLongitude = positionActual.Longitude,
                           !.HomeLocationAltitude = positionActual.Altitude,
                           !.HomeLocationSet = TRUE ]
    ELSE settings

\* abs() of <stdlib.h>, on the distance in meters (1 degree is 111111 m).
MetersPerDegree == 111111
abs(x) == IF x < 0 THEN -x ELSE x

OutsideRadius(distance) == abs(distance * MetersPerDegree) > RadiusBase

\* Variant of HeadingCourse without the two while loops; C2 rejects it.
HeadingCourseUnwrapped(distance, course) ==
    IF OutsideRadius(distance)
    THEN course + diffHeadingYaw
    ELSE courseRelative

\* Variant of HeadingCourse with the yaw 0 of the commented-out else branch;
\* C15 rejects it.
HeadingCourseZeroInside(distance, course) ==
    IF OutsideRadius(distance)
    THEN wrapDown(wrapUp(course + diffHeadingYaw))
    ELSE 0

\* 2. Heading
HeadingCourse(distance, course) ==
    IF OutsideRadius(distance)
    THEN wrapDown(wrapUp(course + diffHeadingYaw))
    ELSE courseRelative

\* 3. Altitude
AltitudePitch(positionActual, down) ==
    IF (positionActual.Altitude + positionActual.GeoidSeparation) < down
    THEN PitchClimb
    ELSE PitchSink

\* Variant of TaskRateGated that clears the guidance alarm before the rate
\* gate; C11 rejects it.
TaskRateGatedClearsAlarm(settings, alarms, thisTime) ==
    /\ lastUpdateTime' = LastUpdateTimeOnEntry(thisTime)
    /\ ccguidanceSettings' = settings
    /\ SystemAlarms' = [alarms EXCEPT !.GUIDANCE = "OK"]
    /\ UNCHANGED << FlightStatus, flightStatus, StabilizationDesired,
                    positionHoldLast, calculateCourseStep, courseTrue,
                    courseRelative, diffHeadingYaw, positionDesiredNorth,
                    positionDesiredEast, positionDesiredDown, positionActualNorth,
                    positionActualEast, DistanceToBase,
                    StateSaveCurrentPositionToRTB >>

\* The return taken while not enough time has passed.
TaskRateGated(settings, alarms, thisTime) ==
    /\ lastUpdateTime' = LastUpdateTimeOnEntry(thisTime)
    /\ ccguidanceSettings' = settings
    /\ SystemAlarms' = alarms
    /\ UNCHANGED << FlightStatus, flightStatus, StabilizationDesired,
                    positionHoldLast, calculateCourseStep, courseTrue,
                    courseRelative, diffHeadingYaw, positionDesiredNorth,
                    positionDesiredEast, positionDesiredDown, positionActualNorth,
                    positionActualEast, DistanceToBase,
                    StateSaveCurrentPositionToRTB >>

\* Variant of TaskGuardFailed in which the reset of the course step is left
\* to the guidance branch; C1 rejects it.
TaskGuardFailedKeepsStep(settings, alarms) ==
    /\ positionHoldLast' = 0
    /\ SystemAlarms' = [alarms EXCEPT !.GUIDANCE = "OK"]
    /\ ccguidanceSettings' = settings
    /\ UNCHANGED << StabilizationDesired, calculateCourseStep, courseTrue,
                    courseRelative, diffHeadingYaw, positionDesiredNorth,
                    positionDesiredEast, positionDesiredDown, positionActualNorth,
                    positionActualEast, DistanceToBase,
                    StateSaveCurrentPositionToRTB >>

\* The else branch of the guard: reset globals.
TaskGuardFailed(settings, alarms) ==
    /\ positionHoldLast' = 0
    /\ SystemAlarms' = [alarms EXCEPT !.GUIDANCE = "OK"]
    /\ calculateCourseStep' = 0
    /\ ccguidanceSettings' = settings
    /\ UNCHANGED << StabilizationDesired, courseTrue, courseRelative,
                    diffHeadingYaw, positionDesiredNorth, positionDesiredEast,
                    positionDesiredDown, positionActualNorth, positionActualEast,
                    DistanceToBase, StateSaveCurrentPositionToRTB >>

\* case 0 of the switch: snapshot the position, latch the home location, return.
TaskStep0(settings, alarms, fs, positionActual) ==
    /\ positionActualNorth' = positionActual.Latitude \div GpsScale
    /\ positionActualEast' = positionActual.Longitude \div GpsScale
    /\ ccguidanceSettings' = LatchHome(fs, settings, positionActual)
    /\ StateSaveCurrentPositionToRTB' =
           IF SaveHomeLocation(fs) THEN 1 ELSE StateSaveCurrentPositionToRTB
    /\ calculateCourseStep' = calculateCourseStep + 1
    /\ SystemAlarms' = alarms
    /\ UNCHANGED << StabilizationDesired, courseTrue, courseRelative,
                    diffHeadingYaw, DistanceToBase >>

\* Variant of TaskStep1 that computes the heading error at every groundspeed;
\* C17 rejects it.
TaskStep1AlwaysRecomputes(settings, alarms, positionActual, target) ==
    /\ DistanceToBase' = sphereDistance(positionActualNorth, positionActualEast,
                                        target.North, target.East)
    /\ diffHeadingYaw' =
           wrapDown(wrapUp(AttitudeActual.Yaw - positionActual.Heading))
    /\ calculateCourseStep' = calculateCourseStep + 1
    /\ ccguidanceSettings' = settings
    /\ SystemAlarms' = alarms
    /\ UNCHANGED << StabilizationDesired, courseTrue, courseRelative,
                    positionActualNorth, positionActualEast,
                    StateSaveCurrentPositionToRTB >>

\* case 1 of the switch: the distance to the target and the heading error, return.
TaskStep1(settings, alarms, positionActual, target) ==
    /\ DistanceToBase' = sphereDistance(positionActualNorth, positionActualEast,
                                        target.North, target.East)
    /\ diffHeadingYaw' =
           IF positionActual.Groundspeed > GroundspeedMinimal
           THEN wrapDown(wrapUp(AttitudeActual.Yaw - positionActual.Heading))
           ELSE diffHeadingYaw
    /\ calculateCourseStep' = calculateCourseStep + 1
    /\ ccguidanceSettings' = settings
    /\ SystemAlarms' = alarms
    /\ UNCHANGED << StabilizationDesired, courseTrue, courseRelative,
                    positionActualNorth, positionActualEast,
                    StateSaveCurrentPositionToRTB >>

\* Variant of TaskStep2 that leaves the throttle of the stored setpoint; C12
\* rejects it.
TaskStep2KeepsThrottle(settings, alarms, positionActual, target) ==
    LET course == sphereCourse(positionActualNorth, positionActualEast,
                               target.North, target.East, DistanceToBase)
        relative == HeadingCourse(DistanceToBase, course)
    IN  /\ courseTrue' = course
        /\ courseRelative' = relative
        /\ StabilizationDesired' =
               [ Yaw |-> relative,
                 Pitch |-> AltitudePitch(positionActual, target.Down),
                 Roll |-> RollNeutral,
                 Throttle |-> StabilizationDesired.Throttle,
                 StabilizationMode |->
                     [ROLL |-> "Attitude", PITCH |-> "Attitude", YAW |-> "Attitude"] ]
        /\ SystemAlarms' = [alarms EXCEPT !.GUIDANCE = "OK"]
        /\ calculateCourseStep' = 0
        /\ ccguidanceSettings' = settings
        /\ UNCHANGED << diffHeadingYaw, positionActualNorth, positionActualEast,
                        DistanceToBase, StateSaveCurrentPositionToRTB >>

\* case 2 of the switch and the setpoint of the main position hold loop.
TaskStep2(settings, alarms, positionActual, target) ==
    LET course == sphereCourse(positionActualNorth, positionActualEast,
                               target.North, target.East, DistanceToBase)
        relative == HeadingCourse(DistanceToBase, course)
    IN  /\ courseTrue' = course
        /\ courseRelative' = relative
        /\ StabilizationDesired' =
               [ Yaw |-> relative,
                 Pitch |-> AltitudePitch(positionActual, target.Down),
                 Roll |-> RollNeutral,
                 Throttle |-> ManualControlCommand.Throttle,
                 StabilizationMode |->
                     [ROLL |-> "Attitude", PITCH |-> "Attitude", YAW |-> "Attitude"] ]
        /\ SystemAlarms' = [alarms EXCEPT !.GUIDANCE = "OK"]
        /\ calculateCourseStep' = 0
        /\ ccguidanceSettings' = settings
        /\ UNCHANGED << diffHeadingYaw, positionActualNorth, positionActualEast,
                        DistanceToBase, StateSaveCurrentPositionToRTB >>

\* Variant of TaskFallback that holds the yaw in Attitude mode and raises no
\* alarm; C3 rejects it.
TaskFallbackSilent(settings, alarms) ==
    /\ StabilizationDesired' =
           [ Yaw |-> 0,
             Pitch |-> PitchClimb,
             Roll |-> RollMax,
             Throttle |-> ManualControlCommand.Throttle,
             StabilizationMode |->
                 [ROLL |-> "Attitude", PITCH |-> "Attitude", YAW |-> "Attitude"] ]
    /\ SystemAlarms' = alarms
    /\ calculateCourseStep' = 0
    /\ ccguidanceSettings' = settings
    /\ UNCHANGED << courseTrue, courseRelative, diffHeadingYaw, positionActualNorth,
                    positionActualEast, DistanceToBase,
                    StateSaveCurrentPositionToRTB >>

\* Variant of TaskFallback that leaves the course step where it is; C20
\* rejects it.
TaskFallbackKeepsStep(settings, alarms) ==
    /\ StabilizationDesired' =
           [ Yaw |-> 0,
             Pitch |-> PitchClimb,
             Roll |-> RollMax,
             Throttle |-> ManualControlCommand.Throttle,
             StabilizationMode |->
                 [ROLL |-> "Attitude", PITCH |-> "Attitude", YAW |-> "Rate"] ]
    /\ SystemAlarms' = [alarms EXCEPT !.GUIDANCE = "Warning"]
    /\ ccguidanceSettings' = settings
    /\ UNCHANGED << calculateCourseStep, courseTrue, courseRelative,
                    diffHeadingYaw, positionActualNorth, positionActualEast,
                    DistanceToBase, StateSaveCurrentPositionToRTB >>

\* Fallback, no position data!
TaskFallback(settings, alarms) ==
    /\ StabilizationDesired' =
           [ Yaw |-> 0,
             Pitch |-> PitchClimb,
             Roll |-> RollMax,
             Throttle |-> ManualControlCommand.Throttle,
             StabilizationMode |->
                 [ROLL |-> "Attitude", PITCH |-> "Attitude", YAW |-> "Rate"] ]
    /\ SystemAlarms' = [alarms EXCEPT !.GUIDANCE = "Warning"]
    /\ calculateCourseStep' = 0
    /\ ccguidanceSettings' = settings
    /\ UNCHANGED << courseTrue, courseRelative, diffHeadingYaw, positionActualNorth,
                    positionActualEast, DistanceToBase,
                    StateSaveCurrentPositionToRTB >>

\* Variant of TaskGuidance that selects the target after the check of the fix;
\* C19 rejects it.
TaskGuidanceSelectsWithFix3D(settings, alarms, fs, positionActual) ==
    LET target == IF positionActual.Status = "Fix3D"
                  THEN TargetSelector(fs, settings, positionActual)
                  ELSE [ North |-> positionDesiredNorth,
                         East |-> positionDesiredEast,
                         Down |-> positionDesiredDown,
                         Last |-> positionHoldLast ]
    IN  /\ positionDesiredNorth' = target.North
        /\ positionDesiredEast' = target.East
        /\ positionDesiredDown' = target.Down
        /\ positionHoldLast' = target.Last
        /\ IF positionActual.Status = "Fix3D"
           THEN CASE calculateCourseStep = 0 ->
                         TaskStep0(settings, alarms, fs, positionActual)
                  [] calculateCourseStep = 1 ->
                         TaskStep1(settings, alarms, positionActual, target)
                  [] calculateCourseStep = 2 ->
                         TaskStep2(settings, alarms, positionActual, target)
           ELSE TaskFallback(settings, alarms)

\* The guidance branch: target selection, then the Fix3D switch or the fallback.
TaskGuidance(settings, alarms, fs, positionActual) ==
    LET target == TargetSelector(fs, settings, positionActual)
    IN  /\ positionDesiredNorth' = target.North
        /\ positionDesiredEast' = target.East
        /\ positionDesiredDown' = target.Down
        /\ positionHoldLast' = target.Last
        /\ IF positionActual.Status = "Fix3D"
           THEN CASE calculateCourseStep = 0 ->
                         TaskStep0(settings, alarms, fs, positionActual)
                  [] calculateCourseStep = 1 ->
                         TaskStep1(settings, alarms, positionActual, target)
                  [] calculateCourseStep = 2 ->
                         TaskStep2(settings, alarms, positionActual, target)
           ELSE TaskFallback(settings, alarms)

\* static void ccguidanceTask(UAVObjEvent * ev).  xTaskGetTickCount() gives
\* thisTime, CCGuidanceSettingsGet settings, AlarmsGet alarms and GPSPositionGet
\* positionActual.
ccguidanceTask(thisTime, settings, alarms, positionActual) ==
    LET fs == FailsafeFlightStatus(settings, alarms)
    IN  IF RateGated(thisTime)
        THEN TaskRateGated(settings, alarms, thisTime)
        ELSE /\ lastUpdateTime' = thisTime
             /\ FlightStatus' = fs
             /\ flightStatus' = fs
             /\ IF GuardPasses(fs)
                THEN TaskGuidance(settings, alarms, fs, positionActual)
                ELSE TaskGuardFailed(settings, alarms)

(***************************************************************************)
(* The other modules and the ground station, which write the UAVObjects    *)
(* the callback reads.                                                     *)
(***************************************************************************)
\* The tick of a call: the tick counter is monotonic, so no call comes before
\* the last accepted update.
CallTimes == lastUpdateTime .. MaxTick

\* The GPS module publishes a fix and the object's callback runs.  The core only
\* reads CCGuidanceSettings and the manual control alarm, so what the ground
\* station and the manual control module wrote since the last call shows in the
\* values this call reads.
GPSPositionCallback(times, fixes, homes, levels) ==
    \E fix \in fixes, thisTime \in times, home \in homes, level \in levels :
        LET settings == [ HomeLocationSet |-> home.HomeLocationSet,
                          HomeLocationLatitude |-> home.HomeLocationLatitude,
                          HomeLocationLongitude |-> home.HomeLocationLongitude,
                          HomeLocationAltitude |-> home.HomeLocationAltitude,
                          failesaveEnableRTB |-> CCGuidanceSettings.failesaveEnableRTB ]
            alarms == [SystemAlarms EXCEPT !.MANUALCONTROL = level]
        IN  /\ GPSPosition' = fix
            /\ CCGuidanceSettings' = settings
            /\ ccguidanceTask(thisTime, settings, alarms, fix)
            /\ UNCHANGED << SystemSettings, AttitudeActual, ManualControlCommand >>

GPSPositionUpdated(fixes, homes, levels) ==
    GPSPositionCallback(CallTimes, fixes, homes, levels)

\* The manual control module writes the flight mode and the arming state.
FlightStatusUpdated(modes, armeds) ==
    \E mode \in modes, armed \in armeds :
        /\ FlightStatus' = [FlightMode |-> mode, Armed |-> armed]
        /\ UNCHANGED << SystemSettings, CCGuidanceSettings, GPSPosition,
                        AttitudeActual, ManualControlCommand, SystemAlarms,
                        StabilizationDesired, statics, locals >>

\* The attitude module publishes the yaw that step 1 reads.
AttitudeActualUpdated(yaws) ==
    \E yaw \in yaws :
        /\ AttitudeActual' = [Yaw |-> yaw]
        /\ UNCHANGED << FlightStatus, SystemSettings, CCGuidanceSettings,
                        GPSPosition, ManualControlCommand, SystemAlarms,
                        StabilizationDesired, statics, locals >>

\* The manual control module publishes the throttle the setpoint passes on.
ManualControlCommandUpdated(throttles) ==
    \E throttle \in throttles :
        /\ ManualControlCommand' = [Throttle |-> throttle]
        /\ UNCHANGED << FlightStatus, SystemSettings, CCGuidanceSettings,
                        GPSPosition, AttitudeActual, SystemAlarms,
                        StabilizationDesired, statics, locals >>

\* The UAVObjects after CCGuidanceInitialize and CCGuidanceStart.
ObjectsAfterStart(airframes, failsafes) ==
    /\ FlightStatus = [FlightMode |-> "Manual", Armed |-> "Disarmed"]
    /\ SystemSettings \in [AirframeType : airframes]
    /\ CCGuidanceSettings \in
           [ HomeLocationSet : {FALSE}, HomeLocationLatitude : {0},
             HomeLocationLongitude : {0}, HomeLocationAltitude : {0},
             failesaveEnableRTB : failsafes ]
    /\ GPSPosition = [ Latitude |-> 0, Longitude |-> 0, Altitude |-> 0,
                       GeoidSeparation |-> 0, Groundspeed |-> 0, Heading |-> 0,
                       Status |-> "NoFix" ]
    /\ AttitudeActual = [Yaw |-> 0]
    /\ ManualControlCommand = [Throttle |-> 0]
    /\ SystemAlarms = [GUIDANCE |-> CCGuidanceStart, MANUALCONTROL |-> "OK"]
    /\ StabilizationDesired =
           [ Yaw |-> 0, Pitch |-> 0, Roll |-> 0, Throttle |-> 0,
             StabilizationMode |-> [ROLL |-> "None", PITCH |-> "None", YAW |-> "None"] ]
    /\ ccguidanceSettings = CCGuidanceSettings
    /\ flightStatus = FlightStatus

\* The state after CCGuidanceInitialize and CCGuidanceStart.
InitWith(airframes, failsafes) ==
    /\ ObjectsAfterStart(airframes, failsafes)
    /\ positionHoldLast = 0
    /\ calculateCourseStep = 0
    /\ lastUpdateTime = 0
    /\ courseTrue = 0
    /\ courseRelative = 0
    /\ diffHeadingYaw = 0
    /\ positionDesiredNorth = 0
    /\ positionDesiredEast = 0
    /\ positionDesiredDown = 0
    /\ positionActualNorth = 0
    /\ positionActualEast = 0
    /\ DistanceToBase = 0
    /\ StateSaveCurrentPositionToRTB = 0

(***************************************************************************)
(* Spec: a fixed-wing airframe in flight with the failsafe off.  The       *)
(* flight mode, the home location and the position, altitude and quality   *)
(* of the fix change; the vehicle is armed by the first FlightStatus       *)
(* update and stays armed.                                                 *)
(***************************************************************************)
SpecFixes == Fixes({PointA, PointB}, {6}, {270}, {"NoFix", "Fix3D"})
Init == InitWith({"FixedWing"}, {FALSE})
Next ==
    \/ GPSPositionUpdated(SpecFixes, {HomeUnset} \cup HomeAt({PointA, PointB}),
                          {"OK"})
    \/ FlightStatusUpdated(FlightModes, {"Armed"})
Spec == Init /\ [][Next]_vars

(***************************************************************************)
(* SpecModes: every airframe, the failsafe on or off, the manual control   *)
(* alarm and the flight mode changing, fixes of every quality; the vehicle *)
(* stays disarmed and the home location is not set.                        *)
(***************************************************************************)
ModesFixes == Fixes({PointA, PointB}, {6}, {270}, {"NoFix", "Fix2D", "Fix3D"})
InitModes == InitWith(AirframeTypes, BOOLEAN)
NextModes ==
    \/ GPSPositionUpdated(ModesFixes, {HomeUnset}, ManualControlAlarmLevels)
    \/ FlightStatusUpdated(FlightModes, {"Disarmed"})
SpecModes == InitModes /\ [][NextModes]_vars

(***************************************************************************)
(* SpecHome: a fixed-wing airframe on the ground and in the air.  The      *)
(* arming state, the flight mode, the home location and the position and   *)
(* quality of the fix change.                                              *)
(***************************************************************************)
HomeFixes == Fixes({PointA, PointB}, {6}, {270}, {"NoFix", "Fix3D"})
InitHome == InitWith({"FixedWing"}, {FALSE})
NextHome ==
    \/ GPSPositionUpdated(HomeFixes, {HomeUnset} \cup HomeAt({PointB}), {"OK"})
    \/ FlightStatusUpdated(FlightModes, ArmedValues)
SpecHome == InitHome /\ [][NextHome]_vars

(***************************************************************************)
(* SpecNav: a fixed-wing airframe in flight at 0N 90E, holding its         *)
(* position or returning to a home at 90N 0E.  The groundspeed, the GPS    *)
(* heading and the attitude yaw change.                                    *)
(***************************************************************************)
NavFixes == Fixes({PointA}, {5, 6}, {180, 270}, {"Fix3D"})
InitNav == InitWith({"FixedWing"}, {FALSE})
NextNav ==
    \/ GPSPositionCallback(lastUpdateTime .. MaxNavTick, NavFixes,
                           {HomeUnset} \cup HomeAt({PointB}), {"OK"})
    \/ FlightStatusUpdated({"PositionHold", "ReturnToBase"}, {"Armed"})
    \/ AttitudeActualUpdated({0, 90})
SpecNav == InitNav /\ [][NextNav]_vars

(***************************************************************************)
(* SpecHold: a fixed-wing airframe in flight at 0N 90E with a home at      *)
(* 90N 0E, long enough to return, lose the fix and hold.  The flight mode, *)
(* the quality of the fix and the throttle change.                         *)
(***************************************************************************)
HoldFixes == Fixes({PointA}, {6}, {270}, {"NoFix", "Fix3D"})
InitHold == InitWith({"FixedWing"}, {FALSE})
NextHold ==
    \/ GPSPositionCallback(lastUpdateTime .. MaxHoldTick, HoldFixes,
                           HomeAt({PointB}), {"OK"})
    \/ FlightStatusUpdated({"PositionHold", "ReturnToBase"}, {"Armed"})
    \/ ManualControlCommandUpdated({0, 1})
SpecHold == InitHold /\ [][NextHold]_vars

(***************************************************************************)
(* SpecCourse: the navigation math on its own.  The arguments of           *)
(* sphereDistance and sphereCourse are any two points of a grid and any    *)
(* central angle; the actions are the two calls of the callback.           *)
(***************************************************************************)
CourseLatitudes == {0, 90}
CourseLongitudes == {-90, 0, 90, 180}
CourseAngles == {0, 90, 180}

\* DistanceToBase = sphereDistance(positionActualNorth, ..., positionDesiredEast)
ComputeDistance ==
    /\ DistanceToBase' = sphereDistance(positionActualNorth, positionActualEast,
                                        positionDesiredNorth, positionDesiredEast)
    /\ UNCHANGED << objects, locals, positionHoldLast, calculateCourseStep,
                    lastUpdateTime, courseTrue, courseRelative, diffHeadingYaw,
                    positionDesiredNorth, positionDesiredEast, positionDesiredDown,
                    positionActualNorth, positionActualEast,
                    StateSaveCurrentPositionToRTB >>

\* courseTrue = sphereCourse(positionActualNorth, ..., DistanceToBase)
ComputeCourse ==
    /\ courseTrue' = sphereCourse(positionActualNorth, positionActualEast,
                                  positionDesiredNorth, positionDesiredEast,
                                  DistanceToBase)
    /\ UNCHANGED << objects, locals, positionHoldLast, calculateCourseStep,
                    lastUpdateTime, courseRelative, diffHeadingYaw,
                    positionDesiredNorth, positionDesiredEast, positionDesiredDown,
                    positionActualNorth, positionActualEast, DistanceToBase,
                    StateSaveCurrentPositionToRTB >>

InitCourse ==
    /\ ObjectsAfterStart({"FixedWing"}, {FALSE})
    /\ positionActualNorth \in CourseLatitudes
    /\ positionActualEast \in CourseLongitudes
    /\ positionDesiredNorth \in CourseLatitudes
    /\ positionDesiredEast \in CourseLongitudes
    /\ DistanceToBase \in CourseAngles
    /\ courseTrue = 0
    /\ positionHoldLast = 0
    /\ calculateCourseStep = 0
    /\ lastUpdateTime = 0
    /\ courseRelative = 0
    /\ diffHeadingYaw = 0
    /\ positionDesiredDown = 0
    /\ StateSaveCurrentPositionToRTB = 0
NextCourse == ComputeDistance \/ ComputeCourse
SpecCourse == InitCourse /\ [][NextCourse]_vars

(***************************************************************************)
(* Vocabulary of the properties.  A cycle is a call of the callback that   *)
(* passed the rate gate; it is the only step that moves lastUpdateTime     *)
(* from a value other than 0.                                              *)
(***************************************************************************)
GatedCycle == lastUpdateTime # 0 /\ lastUpdateTime' # lastUpdateTime

\* A step of the callback, as opposed to a write of another module.
CallbackRan ==
    \/ lastUpdateTime' # lastUpdateTime
    \/ GPSPosition' # GPSPosition
    \/ SystemAlarms' # SystemAlarms
    \/ CCGuidanceSettings' # CCGuidanceSettings

GuidanceFamily == {"PositionHold", "ReturnToBase"}
FixedWingFamily == {"FixedWing", "FixedWingElevon", "FixedWingVTail"}

\* The guard of the cycle, on the flight mode the cycle leaves in the store.
CycleGuardPasses ==
    /\ FlightStatus'.FlightMode \in GuidanceFamily
    /\ SystemSettings.AirframeType \in FixedWingFamily

CycleFix3D == GPSPosition'.Status = "Fix3D"

\* The target as a tuple.
positionDesired ==
    << positionDesiredNorth, positionDesiredEast, positionDesiredDown >>

(***************************************************************************)
(* C1.  In every cycle where the guard passes and the fix is Fix3D the     *)
(* course step advances by one along 0 -> 1 -> 2 and the cycle that ran    *)
(* step 2 leaves it 0; a cycle in which the guard fails leaves it 0; no    *)
(* other step changes it, so it is still 0 when the next cycle starts.     *)
(* The course step is never outside {0, 1, 2}.                             *)
(***************************************************************************)
C1_CourseStepAdvances ==
    [][ /\ calculateCourseStep \in 0..2
        /\ calculateCourseStep' \in 0..2
        /\ (GatedCycle /\ CycleGuardPasses /\ CycleFix3D)
               => calculateCourseStep' = (calculateCourseStep + 1) % 3
        /\ (GatedCycle /\ ~CycleGuardPasses) => calculateCourseStep' = 0
        /\ ~GatedCycle => calculateCourseStep' = calculateCourseStep ]_vars

\* A cycle ran step 2 (only step 2 sets the yaw mode to Attitude) and left the
\* course step 0, and a later cycle failed the guard.
C1_Witness ==
    /\ calculateCourseStep = 0
    /\ StabilizationDesired.StabilizationMode.YAW = "Attitude"
    /\ positionHoldLast = 0
    /\ flightStatus.FlightMode = "Manual"

(***************************************************************************)
(* C2.  Of three consecutive cycles from course step 0 in which the guard  *)
(* passes, the fix is Fix3D, the groundspeed is above the minimum and the  *)
(* stored distance to the target is beyond RadiusBase, the first two       *)
(* (steps 0 and 1) publish no setpoint, and the third (step 2) publishes   *)
(* the yaw courseTrue + diffHeadingYaw brought into [-180, 180] by whole   *)
(* turns, the climb pitch if altitude + geoid separation is below the      *)
(* target altitude and the sink pitch otherwise, the neutral roll and the  *)
(* yaw mode Attitude, and leaves the guidance alarm cleared.               *)
(***************************************************************************)
C2_ThirdCyclePublishes ==
    [][ (/\ GatedCycle /\ CycleGuardPasses /\ CycleFix3D
         /\ GPSPosition'.Groundspeed > GroundspeedMinimal)
        => /\ calculateCourseStep \in {0, 1}
                  => StabilizationDesired' = StabilizationDesired
           /\ (calculateCourseStep = 2 /\ DistanceToBase * 111111 > RadiusBase)
                  => /\ StabilizationDesired'.Yaw \in -180..180
                     /\ (StabilizationDesired'.Yaw
                             - (courseTrue' + diffHeadingYaw')) % 360 = 0
                     /\ StabilizationDesired'.Pitch =
                            IF GPSPosition'.Altitude + GPSPosition'.GeoidSeparation
                                   < positionDesiredDown'
                            THEN PitchClimb ELSE PitchSink
                     /\ StabilizationDesired'.Roll = RollNeutral
                     /\ StabilizationDesired'.StabilizationMode.YAW = "Attitude"
                     /\ SystemAlarms'.GUIDANCE = "OK" ]_vars

\* The third cycle published: from the pole toward the home on the equator the
\* course is 180, the heading error 90, and the yaw is their sum less a turn;
\* the vehicle is above the return altitude and sinks.
C2_Witness ==
    /\ calculateCourseStep = 0
    /\ DistanceToBase = 90
    /\ courseTrue = 180
    /\ diffHeadingYaw = 90
    /\ StabilizationDesired.Yaw = -90
    /\ StabilizationDesired.Pitch = PitchSink
    /\ StabilizationDesired.Roll = RollNeutral
    /\ StabilizationDesired.StabilizationMode.YAW = "Attitude"
    /\ SystemAlarms.GUIDANCE = "OK"

(***************************************************************************)
(* C3.  A cycle where the guard passes and the fix is not Fix3D, whatever  *)
(* the course step, publishes the fallback setpoint: yaw 0, the climb      *)
(* pitch, the maximum roll, yaw mode Rate; it sets the guidance alarm to   *)
(* Warning and leaves the course step 0.                                   *)
(***************************************************************************)
C3_FallbackWithoutFix3D ==
    [][ (GatedCycle /\ CycleGuardPasses /\ ~CycleFix3D)
        => /\ StabilizationDesired'.Yaw = 0
           /\ StabilizationDesired'.Pitch = PitchClimb
           /\ StabilizationDesired'.Roll = RollMax
           /\ StabilizationDesired'.StabilizationMode.YAW = "Rate"
           /\ SystemAlarms'.GUIDANCE = "Warning"
           /\ calculateCourseStep' = 0 ]_vars

\* The fallback was published after step 1 had run: the heading error is
\* computed, and the course step is back to 0.
C3_Witness ==
    /\ GPSPosition.Status = "Fix2D"
    /\ diffHeadingYaw = 90
    /\ calculateCourseStep = 0
    /\ StabilizationDesired.StabilizationMode.YAW = "Rate"
    /\ StabilizationDesired.Roll = RollMax
    /\ SystemAlarms.GUIDANCE = "Warning"

(***************************************************************************)
(* C4.  A cycle in which the guard fails (flight mode outside the guidance *)
(* family, or airframe not fixed-wing) clears the guidance alarm, sets the *)
(* phase to 0 and the course step to 0 and leaves StabilizationDesired     *)
(* untouched; StabilizationDesired is written only in cycles where the     *)
(* guard passes.                                                           *)
(***************************************************************************)
C4_GuardFailed ==
    [][ /\ (GatedCycle /\ ~CycleGuardPasses)
               => /\ SystemAlarms'.GUIDANCE = "OK"
                  /\ positionHoldLast' = 0
                  /\ calculateCourseStep' = 0
                  /\ StabilizationDesired' = StabilizationDesired
        /\ StabilizationDesired' # StabilizationDesired
               => (GatedCycle /\ CycleGuardPasses) ]_vars

\* A fallback setpoint was published with the alarm at Warning, and a later
\* cycle in Manual cleared the alarm and left the setpoint as it was.
C4_Witness ==
    /\ flightStatus.FlightMode = "Manual"
    /\ SystemAlarms.GUIDANCE = "OK"
    /\ positionHoldLast = 0
    /\ calculateCourseStep = 0
    /\ StabilizationDesired.StabilizationMode.YAW = "Rate"

(***************************************************************************)
(* C5.  When the manual control alarm is not OK and the RTB failsafe is    *)
(* enabled, the cycle writes the flight mode ReturnToBase to FlightStatus  *)
(* and its guard and target selection run on ReturnToBase: on a fixed-wing *)
(* airframe the phase becomes 2 with a home set and 1 without.  When the   *)
(* failsafe is disabled or the manual control alarm is OK, and in calls    *)
(* the rate gate rejects, the callback does not write FlightStatus.        *)
(***************************************************************************)
CycleFailsafe ==
    /\ SystemAlarms'.MANUALCONTROL # "OK"
    /\ CCGuidanceSettings'.failesaveEnableRTB

C5_FailsafeForcesReturnToBase ==
    [][ /\ (GatedCycle /\ CycleFailsafe)
               => /\ FlightStatus' =
                         [FlightStatus EXCEPT !.FlightMode = "ReturnToBase"]
                  /\ positionHoldLast' =
                         IF SystemSettings.AirframeType \notin FixedWingFamily
                         THEN 0
                         ELSE IF CCGuidanceSettings'.HomeLocationSet THEN 2 ELSE 1
        /\ (CallbackRan /\ ~(GatedCycle /\ CycleFailsafe))
               => FlightStatus' = FlightStatus ]_vars

\* The failsafe cycle ran on ReturnToBase without a home: the store holds ReturnToBase, the phase
\* is Hold and the fallback of a cycle without Fix3D is published.
C5_Witness ==
    /\ CCGuidanceSettings.failesaveEnableRTB
    /\ SystemAlarms.MANUALCONTROL = "Critical"
    /\ FlightStatus.FlightMode = "ReturnToBase"
    /\ flightStatus.FlightMode = "ReturnToBase"
    /\ positionHoldLast = 1
    /\ SystemAlarms.GUIDANCE = "Warning"

(***************************************************************************)
(* The target a capture of the fix gives, and the target a copy of the     *)
(* home location gives.                                                    *)
(***************************************************************************)
CapturedTarget ==
    << GPSPosition'.Latitude \div GpsScale, GPSPosition'.Longitude \div GpsScale,
       GPSPosition'.Altitude + GPSPosition'.GeoidSeparation + 1 >>

HomeTarget ==
    << CCGuidanceSettings'.HomeLocationLatitude \div GpsScale,
       CCGuidanceSettings'.HomeLocationLongitude \div GpsScale,
       CCGuidanceSettings'.HomeLocationAltitude + ReturnTobaseAltitudeOffset >>

(***************************************************************************)
(* C6 as stated.  A cycle in PositionHold whose previous cycle was in      *)
(* PositionHold too keeps the target; a cycle in PositionHold whose        *)
(* previous cycle was in any other mode, ReturnToBase without a home set   *)
(* included, captures the current fix as the target.                       *)
(***************************************************************************)
C6_RecaptureOnEveryReturn ==
    [][ (GatedCycle /\ CycleGuardPasses /\ FlightStatus'.FlightMode = "PositionHold")
        => IF flightStatus.FlightMode = "PositionHold"
           THEN positionDesired' = positionDesired
           ELSE positionDesired' = CapturedTarget ]_vars

(***************************************************************************)
(* C6.  A cycle in PositionHold captures the current fix as the target if  *)
(* and only if the phase is not Hold when the cycle starts, and leaves the *)
(* phase Hold: cycles that remain in PositionHold do not capture again.    *)
(* A cycle leaves the phase 0 when its guard fails, Hold (1) in            *)
(* PositionHold and in ReturnToBase without a home set, and Return (2) in  *)
(* ReturnToBase with a home set, and nothing else changes the phase; so    *)
(* the first cycle back in PositionHold captures again after a cycle whose *)
(* guard failed or a cycle in ReturnToBase with a home set, and keeps the  *)
(* old target after ReturnToBase without a home set.                       *)
(***************************************************************************)
C6_CaptureWhenPhaseNotHold ==
    [][ /\ (GatedCycle /\ CycleGuardPasses
                /\ FlightStatus'.FlightMode = "PositionHold")
               => /\ positionHoldLast' = 1
                  /\ positionHoldLast = 1 => positionDesired' = positionDesired
                  /\ positionHoldLast # 1 => positionDesired' = CapturedTarget
        /\ GatedCycle
               => positionHoldLast' =
                      IF ~CycleGuardPasses THEN 0
                      ELSE IF FlightStatus'.FlightMode = "PositionHold" THEN 1
                      ELSE IF CCGuidanceSettings'.HomeLocationSet THEN 2 ELSE 1
        /\ ~GatedCycle => positionHoldLast' = positionHoldLast ]_vars

\* The last cycle ran step 0 in PositionHold, and the position it snapshot is
\* not the target: the cycle did not capture.
C6_Witness ==
    /\ flightStatus.FlightMode = "PositionHold"
    /\ positionHoldLast = 1
    /\ calculateCourseStep = 1
    /\ positionActualNorth # positionDesiredNorth

(***************************************************************************)
(* C7.  The target changes only in a cycle, and only when the phase        *)
(* changes in that cycle: to the captured fix on entering Hold, to the     *)
(* copy of the home location on entering Return.  In every other step the  *)
(* target is as before, whatever the fix, the home settings and the        *)
(* attitude.                                                               *)
(***************************************************************************)
C7_TargetFrame ==
    [][ positionDesired' # positionDesired
        => /\ GatedCycle /\ CycleGuardPasses
           /\ positionHoldLast' # positionHoldLast
           /\ \/ positionHoldLast' = 1 /\ positionDesired' = CapturedTarget
              \/ positionHoldLast' = 2 /\ positionDesired' = HomeTarget ]_vars

\* In the Return phase the home location of the settings has moved away from
\* the target, which stays.
C7_Witness ==
    /\ positionHoldLast = 2
    /\ flightStatus.FlightMode = "ReturnToBase"
    /\ CCGuidanceSettings.HomeLocationSet
    /\ positionDesiredNorth # CCGuidanceSettings.HomeLocationLatitude \div GpsScale

(***************************************************************************)
(* C8.  The callback latches the home location into its settings only in a *)
(* step-0 cycle with Fix3D while disarmed and with the save flag 0, and    *)
(* the latch sets the flag, which never returns to 0: further step-0       *)
(* cycles of the disarmed period do not latch.                             *)
(***************************************************************************)
HomeLatched == CallbackRan /\ ccguidanceSettings' # CCGuidanceSettings'

C8_LatchAtMostOnce ==
    [][ /\ HomeLatched
               => /\ GatedCycle /\ CycleGuardPasses /\ CycleFix3D
                  /\ calculateCourseStep = 0
                  /\ FlightStatus'.Armed = "Disarmed"
                  /\ StateSaveCurrentPositionToRTB = 0
                  /\ StateSaveCurrentPositionToRTB' = 1
        /\ StateSaveCurrentPositionToRTB = 1
               => StateSaveCurrentPositionToRTB' = 1 ]_vars

\* A step-0 cycle ran while disarmed after step 1 had run, that is after an
\* earlier step-0 cycle, and its settings are those of the store.
C8_Witness ==
    /\ StateSaveCurrentPositionToRTB = 1
    /\ flightStatus.Armed = "Disarmed"
    /\ calculateCourseStep = 1
    /\ DistanceToBase # 0
    /\ ccguidanceSettings = CCGuidanceSettings

(***************************************************************************)
(* C9 as stated.  The first cycle after disarming, when it runs step 0     *)
(* with Fix3D, latches the home location from the fix: each disarmed       *)
(* period latches again.                                                   *)
(***************************************************************************)
C9_LatchInEveryDisarmedPeriod ==
    [][ (/\ GatedCycle /\ CycleGuardPasses /\ CycleFix3D
         /\ calculateCourseStep = 0
         /\ flightStatus.Armed = "Armed"
         /\ FlightStatus'.Armed = "Disarmed")
        => /\ ccguidanceSettings'.HomeLocationSet
           /\ ccguidanceSettings'.HomeLocationLatitude = GPSPosition'.Latitude
           /\ ccguidanceSettings'.HomeLocationLongitude = GPSPosition'.Longitude
           /\ ccguidanceSettings'.HomeLocationAltitude = GPSPosition'.Altitude ]_vars

(***************************************************************************)
(* C10 as stated.  The cycle that latches the home location leaves the     *)
(* latitude, longitude and altitude of the fix and the home-set flag in    *)
(* the CCGuidanceSettings object.                                          *)
(***************************************************************************)
C10_LatchWrittenToSettings ==
    [][ (StateSaveCurrentPositionToRTB = 0 /\ StateSaveCurrentPositionToRTB' = 1)
        => /\ CCGuidanceSettings'.HomeLocationSet
           /\ CCGuidanceSettings'.HomeLocationLatitude = GPSPosition'.Latitude
           /\ CCGuidanceSettings'.HomeLocationLongitude = GPSPosition'.Longitude
           /\ CCGuidanceSettings'.HomeLocationAltitude = GPSPosition'.Altitude ]_vars

(***************************************************************************)
(* A call that the rate gate rejects: the callback ran and the step is not *)
(* a cycle.                                                                *)
(***************************************************************************)
RateGatedCall == CallbackRan /\ ~GatedCycle

\* What a rejected call leaves alone, lastUpdateTime apart.
RateGatedFrame ==
    /\ calculateCourseStep' = calculateCourseStep
    /\ positionHoldLast' = positionHoldLast
    /\ positionDesired' = positionDesired
    /\ StateSaveCurrentPositionToRTB' = StateSaveCurrentPositionToRTB
    /\ FlightStatus' = FlightStatus
    /\ SystemAlarms'.GUIDANCE = SystemAlarms.GUIDANCE
    /\ StabilizationDesired' = StabilizationDesired

(***************************************************************************)
(* C11 as stated.  A call the rate gate rejects, the very first call after *)
(* start included, changes neither lastUpdateTime nor the course step, the *)
(* phase, the target, the home latch, the flight mode, the guidance alarm  *)
(* or the setpoint.                                                        *)
(***************************************************************************)
C11_RateGatedCallChangesNothing ==
    [][ RateGatedCall
        => (lastUpdateTime' = lastUpdateTime /\ RateGatedFrame) ]_vars

(***************************************************************************)
(* C11.  A call the rate gate rejects changes neither the course step, the *)
(* phase, the target, the home latch, the flight mode, the guidance alarm  *)
(* nor the setpoint, and it changes lastUpdateTime only when that is still *)
(* 0: the first call after start stamps it with the tick of the call, and  *)
(* is rejected.                                                            *)
(***************************************************************************)
C11_RateGatedCallOnlyStamps ==
    [][ /\ RateGatedCall
               => /\ RateGatedFrame
                  /\ lastUpdateTime' # lastUpdateTime => lastUpdateTime = 0
        /\ (CallbackRan /\ lastUpdateTime = 0) => RateGatedFrame ]_vars

\* The first call came in PositionHold with a Fix3D fix: it stamped the time and
\* did nothing else.
C11_Witness ==
    /\ lastUpdateTime # 0
    /\ FlightStatus.FlightMode = "PositionHold"
    /\ GPSPosition.Status = "Fix3D"
    /\ positionHoldLast = 0
    /\ calculateCourseStep = 0
    /\ positionDesired = << 0, 0, 0 >>
    /\ StateSaveCurrentPositionToRTB = 0
    /\ SystemAlarms.GUIDANCE = "Error"
    /\ StabilizationDesired.StabilizationMode.YAW = "None"

(***************************************************************************)
(* The cycles that publish a setpoint: the guard passes, and the fix is    *)
(* not Fix3D (fallback) or the course step is 2.                           *)
(***************************************************************************)
CyclePublishes ==
    /\ GatedCycle /\ CycleGuardPasses
    /\ (~CycleFix3D \/ calculateCourseStep = 2)

(***************************************************************************)
(* C12.  Every setpoint the callback publishes, after step 2 and in the    *)
(* fallback alike, carries the throttle of ManualControlCommand as it is   *)
(* in that cycle; the callback changes the throttle of the setpoint in no  *)
(* other step.                                                             *)
(***************************************************************************)
C12_ThrottlePassedThrough ==
    [][ /\ CyclePublishes
               => StabilizationDesired'.Throttle = ManualControlCommand'.Throttle
        /\ StabilizationDesired'.Throttle # StabilizationDesired.Throttle
               => CyclePublishes ]_vars

\* A step-2 setpoint was published with throttle 1, and the manual control
\* module has lowered the throttle since.
C12_Witness ==
    /\ StabilizationDesired.StabilizationMode.YAW = "Attitude"
    /\ StabilizationDesired.Throttle = 1
    /\ ManualControlCommand.Throttle = 0

(***************************************************************************)
(* C13.  Before the first call the guidance alarm is Error.  It stays      *)
(* Error through every call the rate gate rejects and every cycle that     *)
(* returns at step 0 or step 1; it leaves Error in the first cycle whose   *)
(* guard fails or that completes step 2 (cleared) or that has no Fix3D fix *)
(* (Warning); and no step sets it to Error again.                          *)
(***************************************************************************)
C13_AlarmErrorUntilFirstCompletedCycle ==
    [][ /\ lastUpdateTime = 0 => SystemAlarms.GUIDANCE = "Error"
        /\ SystemAlarms'.GUIDANCE = "Error" => SystemAlarms.GUIDANCE = "Error"
        /\ SystemAlarms.GUIDANCE = "Error"
               => SystemAlarms'.GUIDANCE =
                      IF ~GatedCycle THEN "Error"
                      ELSE IF ~CycleGuardPasses THEN "OK"
                      ELSE IF ~CycleFix3D THEN "Warning"
                      ELSE IF calculateCourseStep = 2 THEN "OK"
                      ELSE "Error" ]_vars

\* Two cycles have returned at step 0 and at step 1, and the alarm is still the
\* Error of module start.
C13_Witness ==
    /\ SystemAlarms.GUIDANCE = "Error"
    /\ calculateCourseStep = 2
    /\ StabilizationDesired.StabilizationMode.YAW = "None"

(***************************************************************************)
(* C14 as stated.  The course sphereCourse returns is greater than -180    *)
(* and at most 180, and is not NaN.                                        *)
(***************************************************************************)
C14_CourseInHalfOpenRange ==
    /\ ~isnan(courseTrue)
    /\ courseTrue > -180
    /\ courseTrue <= 180

(***************************************************************************)
(* A step-2 cycle that publishes a Fix3D setpoint, and whether the stored  *)
(* distance is beyond the hold radius.                                     *)
(***************************************************************************)
CycleStep2 ==
    GatedCycle /\ CycleGuardPasses /\ CycleFix3D /\ calculateCourseStep = 2

BeyondRadius == DistanceToBase * 111111 > RadiusBase

(***************************************************************************)
(* C15 as stated.  In a step-2 cycle with the distance inside the hold     *)
(* radius the published yaw is the yaw StabilizationDesired held before    *)
(* the cycle.                                                              *)
(***************************************************************************)
C15_YawOfStoredSetpointKept ==
    [][ (CycleStep2 /\ ~BeyondRadius)
        => StabilizationDesired'.Yaw = StabilizationDesired.Yaw ]_vars

(***************************************************************************)
(* C15.  In a step-2 cycle with the distance inside the hold radius the    *)
(* published yaw is courseRelative, which the cycle leaves as it was.      *)
(* courseRelative changes only in a step-2 cycle with the distance beyond  *)
(* the radius, so the yaw is the relative course last computed outside the *)
(* radius (0 before the first), whatever yaw the stored setpoint held.     *)
(***************************************************************************)
C15_YawIsLastRelativeCourse ==
    [][ /\ (CycleStep2 /\ ~BeyondRadius)
               => /\ StabilizationDesired'.Yaw = courseRelative
                  /\ courseRelative' = courseRelative
        /\ courseRelative' # courseRelative
               => (CycleStep2 /\ BeyondRadius) ]_vars

\* A step-2 cycle at the target published the relative course 90 of the
\* return flight.
C15_Witness ==
    /\ DistanceToBase = 0
    /\ calculateCourseStep = 0
    /\ courseRelative = 90
    /\ StabilizationDesired.Yaw = 90
    /\ StabilizationDesired.StabilizationMode.YAW = "Attitude"
    /\ positionHoldLast = 1

(***************************************************************************)
(* C16 as stated.  After a step-2 cycle the stored distance is the         *)
(* distance, and the true course the course, from the step-0 snapshot to   *)
(* the target as it stands in that cycle.                                  *)
(***************************************************************************)
C16_DistanceAndCourseOfTheSamePair ==
    [][ CycleStep2
        => /\ DistanceToBase' =
                  sphereDistance(positionActualNorth', positionActualEast',
                                 positionDesiredNorth', positionDesiredEast')
           /\ courseTrue' =
                  sphereCourse(positionActualNorth', positionActualEast',
                               positionDesiredNorth', positionDesiredEast',
                               sphereDistance(positionActualNorth',
                                              positionActualEast',
                                              positionDesiredNorth',
                                              positionDesiredEast')) ]_vars

\* A gated cycle that passes the guard with a Fix3D fix at course step 1.
CycleStep1 ==
    GatedCycle /\ CycleGuardPasses /\ CycleFix3D /\ calculateCourseStep = 1

\* The groundspeed of the cycle's fix is above the threshold of the settings.
CycleMoving == GPSPosition'.Groundspeed > GroundspeedMinimal

(***************************************************************************)
(* C17.  A step-1 cycle sets the heading error to the normalised           *)
(* difference of the attitude yaw and the GPS heading when the groundspeed *)
(* is strictly above GroundspeedMinimal and keeps it otherwise; nothing    *)
(* else changes the heading error, and the step-2 cycle beyond the radius  *)
(* adds the kept value to the true course.                                 *)
(***************************************************************************)
C17_HeadingErrorKeptWhenSlow ==
    [][ /\ (CycleStep1 /\ CycleMoving)
               => diffHeadingYaw' =
                      wrapDown(wrapUp(AttitudeActual.Yaw - GPSPosition'.Heading))
        /\ (CycleStep1 /\ ~CycleMoving) => diffHeadingYaw' = diffHeadingYaw
        /\ diffHeadingYaw' # diffHeadingYaw => (CycleStep1 /\ CycleMoving)
        /\ (CycleStep2 /\ BeyondRadius)
               => courseRelative' =
                      wrapDown(wrapUp(courseTrue' + diffHeadingYaw)) ]_vars

\* A step-1 cycle at groundspeed 5 with a GPS heading of 180 has kept the
\* heading error 90 of an earlier update (yaw 0, heading 270).
C17_Witness ==
    /\ calculateCourseStep = 2
    /\ GPSPosition.Groundspeed = GroundspeedMinimal
    /\ GPSPosition.Heading = 180
    /\ diffHeadingYaw = 90

(***************************************************************************)
(* C18 as stated.  The heading error of step 1 and the relative course     *)
(* published as the yaw setpoint are greater than -180 and at most 180.    *)
(***************************************************************************)
C18_WrapInHalfOpenRange ==
    /\ diffHeadingYaw > -180 /\ diffHeadingYaw <= 180
    /\ courseRelative > -180 /\ courseRelative <= 180
    /\ StabilizationDesired.Yaw > -180 /\ StabilizationDesired.Yaw <= 180

(***************************************************************************)
(* C19.  The target is selected before the fix is looked at.  A cycle in   *)
(* PositionHold that passes the guard without a Fix3D fix while the phase  *)
(* is not Hold captures the target from the GPS record it read, sets the   *)
(* phase Hold and publishes the fallback setpoint; a cycle in PositionHold *)
(* with a Fix3D fix that finds the phase Hold leaves the target as it is.  *)
(***************************************************************************)
C19_TargetCapturedWithoutFix3D ==
    [][ (/\ GatedCycle /\ CycleGuardPasses
         /\ FlightStatus'.FlightMode = "PositionHold")
        => /\ (~CycleFix3D /\ positionHoldLast # 1)
                  => /\ positionDesired' = CapturedTarget
                     /\ positionHoldLast' = 1
                     /\ StabilizationDesired'.StabilizationMode.YAW = "Rate"
           /\ (CycleFix3D /\ positionHoldLast = 1)
                  => /\ positionDesired' = positionDesired
                     /\ positionHoldLast' = 1 ]_vars

\* Two cycles at most have run.  The last one ran step 0 with a Fix3D fix in
\* PositionHold and did not capture, for the position it snapshot is not the
\* target: the target is the one captured by the cycle before, which had no
\* Fix3D fix and published the fallback setpoint.
C19_Witness ==
    /\ lastUpdateTime = 3
    /\ flightStatus.FlightMode = "PositionHold"
    /\ positionHoldLast = 1
    /\ calculateCourseStep = 1
    /\ GPSPosition.Status = "Fix3D"
    /\ StabilizationDesired.StabilizationMode.YAW = "Rate"
    /\ << positionActualNorth, positionActualEast >>
           # << positionDesiredNorth, positionDesiredEast >>

\* A gated cycle that passes the guard with a Fix3D fix.
CycleFix3DGuided == GatedCycle /\ CycleGuardPasses /\ CycleFix3D

(***************************************************************************)
(* C20.  The course step counts the gated cycles with a passing guard and  *)
(* a Fix3D fix that have run in a row: it becomes 1 only in such a cycle   *)
(* from step 0 and 2 only in such a cycle from step 1, every other gated   *)
(* cycle (guard failed, or no Fix3D fix) leaves it 0, and steps that are   *)
(* not gated cycles keep it.  A setpoint with yaw mode Attitude is         *)
(* published, and the guidance alarm goes from Warning to OK while the     *)
(* guard passes, only in a gated Fix3D cycle at step 2, that is in the     *)
(* third such cycle in a row.                                              *)
(***************************************************************************)
C20_AttitudeOnlyInThirdFix3DCycle ==
    [][ /\ calculateCourseStep' = 1
               => \/ (CycleFix3DGuided /\ calculateCourseStep = 0)
                  \/ (~GatedCycle /\ calculateCourseStep = 1)
        /\ calculateCourseStep' = 2
               => \/ (CycleFix3DGuided /\ calculateCourseStep = 1)
                  \/ (~GatedCycle /\ calculateCourseStep = 2)
        /\ (GatedCycle /\ ~CycleFix3DGuided) => calculateCourseStep' = 0
        /\ (/\ StabilizationDesired' # StabilizationDesired
            /\ StabilizationDesired'.StabilizationMode.YAW = "Attitude")
               => (CycleFix3DGuided /\ calculateCourseStep = 2)
        /\ (/\ SystemAlarms.GUIDANCE = "Warning"
            /\ SystemAlarms'.GUIDANCE = "OK"
            /\ CycleGuardPasses)
               => (CycleFix3DGuided /\ calculateCourseStep = 2) ]_vars

\* Steps 0 and 1 ran (the heading error is computed), then a cycle without a
\* Fix3D fix published the fallback, and the Fix3D cycle after it ran step 0
\* again: the setpoint is still the fallback and the alarm still Warning.
C20_Witness ==
    /\ GPSPosition.Status = "Fix3D"
    /\ diffHeadingYaw = 90
    /\ calculateCourseStep = 1
    /\ StabilizationDesired.StabilizationMode.YAW = "Rate"
    /\ SystemAlarms.GUIDANCE = "Warning"

=============================================================================
